---- MODULE Spec2Model ----
(***************************************************************************)
(* Model of src/main.py: collection of the wind-turbine records of the     *)
(* SIGEL registry (id query, batch loop, concatenation, derived columns),  *)
(* the six correction rules and the CSV output.                            *)
(*                                                                         *)
(* The registry is the environment: `registry` holds the feature the       *)
(* service stores under each object id, and every HTTP exchange draws its  *)
(* outcome (transport error, status code, kind of body) from a small set.  *)
(***************************************************************************)
EXTENDS Integers, Sequences, FiniteSets, TLC

VARIABLES
  registry,     \* the service's features: registry[id] for id \in 1..N
  batch_size,   \* batch_size (main.py:68)
  pc,           \* position of the script
  id_response,  \* the response the id-list query received (NoResponse before)
  object_ids,   \* object_ids (main.py:64)
  i,            \* loop variable of the batch loop (main.py:70)
  requests,     \* batch requests sent so far: <<[ids, response], ...>>
  gdfs,         \* gdfs (main.py:69)
  gdf_total,    \* gdf_total (main.py:77 on)
  applied,      \* correction rules already applied to gdf_total
  in_order,     \* the rules were applied in the order of main.py:127-136
  csv           \* the files written as data.csv: none, or the one table

vars == <<registry, batch_size, pc, id_response, object_ids, i, requests,
          gdfs, gdf_total, applied, in_order, csv>>

(***************************************************************************)
(* Bounds of the model.                                                    *)
(***************************************************************************)
MaxIds == 4      \* identifiers in the registry, batch specification
MaxBatch == 3    \* batch sizes tried by the batch specification
MaxRows == 2     \* identifiers in the registry, correction specifications

(***************************************************************************)
(* Python values.                                                          *)
(***************************************************************************)
\* A missing value of a text column (pandas reads null as NaN).
NaN == "nan"

\* A float m * 10^e (m not a multiple of 10 unless m = 0 and e = 0), or nan.
\* Decimal scaling by 1000 is exact in this representation; the binary
\* rounding of Python's floats is not modelled.
Float(m, e) == [nan |-> FALSE, m |-> m, e |-> e]
NaNFloat == [nan |-> TRUE, m |-> 0, e |-> 0]

\* A Python object of a mixed column: its type and the text str() gives.
PyStr(s) == [type |-> "str", text |-> s]
PyInt(s) == [type |-> "int", text |-> s]
PyFloat(s) == [type |-> "float", text |-> s]
PyNaN == PyFloat("nan")

\* str(x)
Str(x) == x.text

\* pd.isna(x)
IsNa(x) == x = PyNaN

RECURSIVE Pow10(_)
Pow10(n) == IF n <= 0 THEN 1 ELSE 10 * Pow10(n - 1)

Digits(m) == IF m < 10 THEN 1 ELSE IF m < 100 THEN 2 ELSE IF m < 1000 THEN 3 ELSE 4

Min(a, b) == IF a <= b THEN a ELSE b

\* a < b for floats of mantissa >= 0: by order of magnitude first, then by
\* the mantissas brought to the same exponent.
AbsLt(am, ae, bm, be) ==
  IF bm = 0 THEN FALSE
  ELSE IF am = 0 THEN TRUE
  ELSE IF ae + Digits(am) # be + Digits(bm) THEN ae + Digits(am) < be + Digits(bm)
  ELSE LET k == Min(ae, be)
       IN am * Pow10(ae - k) < bm * Pow10(be - k)

\* a < b on floats: every comparison with nan is False.
FloatLt(a, b) ==
  IF a.nan \/ b.nan THEN FALSE
  ELSE IF a.m < 0 /\ b.m >= 0 THEN TRUE
  ELSE IF a.m >= 0 /\ b.m < 0 THEN FALSE
  ELSE IF a.m < 0 THEN AbsLt(-b.m, b.e, -a.m, a.e)
  ELSE AbsLt(a.m, a.e, b.m, b.e)

\* a > b
FloatGt(a, b) == FloatLt(b, a)

\* power / 1000
Div1000(p) == IF p.nan \/ p.m = 0 THEN p ELSE [p EXCEPT !.e = p.e - 3]

\* power * 1000
Mul1000(p) == IF p.nan \/ p.m = 0 THEN p ELSE [p EXCEPT !.e = p.e + 3]

(***************************************************************************)
(* CorrectNominalPower (main.py:47-57).                                    *)
(***************************************************************************)
UpperPower == Float(1, 2)     \* 100
LowerPower == Float(5, -2)    \* 0.05

\* Variant: the upper bound itself is scaled down (>= for >).
CorrectNominalPower_InclusiveUpper(power) ==
  IF ~FloatLt(power, UpperPower) THEN Div1000(power)
  ELSE IF FloatLt(power, LowerPower) THEN Mul1000(power)
  ELSE power

\* Variant: the branch of the small powers is missing.
CorrectNominalPower_NoLowerBranch(power) ==
  IF FloatGt(power, UpperPower) THEN Div1000(power)
  ELSE power

CorrectNominalPower(power) ==
  IF FloatGt(power, UpperPower) THEN Div1000(power)
  ELSE IF FloatLt(power, LowerPower) THEN Mul1000(power)
  ELSE power

(***************************************************************************)
(* Literals of the correction rules (main.py:127-135).                     *)
(***************************************************************************)
SerraDeGentio == "Serra de Gentio do Ouro XXIII"
SerraDoGentio == "Serra do Gentio do Ouro XXIII"
AsaBrancaIII == "Asa Branca III"
BarraXI == "Barra XI"
Sim == PyStr("Sim")
SemInformacao == PyStr("Sem informacao")   \* "Sem informação"

(***************************************************************************)
(* Tables: sequences of rows, in table order.                              *)
(***************************************************************************)
RECURSIVE Flatten(_)
Flatten(ss) == IF ss = <<>> THEN <<>> ELSE Head(ss) \o Flatten(Tail(ss))

\* Variant: the slice stops one id early (object_ids[i:i+batch_size-1]).
BatchSlice_DropsLast(ids, start, size) ==
  SubSeq(ids, start + 1, Min(start + size - 1, Len(ids)))

\* object_ids[i:i+batch_size] with a 0-based start (main.py:71)
BatchSlice(ids, start, size) ==
  SubSeq(ids, start + 1, Min(start + size, Len(ids)))

\* The feature collection the service returns for the ids of one request:
\* one feature per requested id, carrying its OBJECTID.
FeaturesOf(reg, ids) ==
  [k \in 1..Len(ids) |->
     [OBJECTID |-> ids[k],
      NOME_EOL |-> reg[ids[k]].NOME_EOL,
      DEN_AEG |-> reg[ids[k]].DEN_AEG,
      UF |-> reg[ids[k]].UF,
      POT_MW |-> reg[ids[k]].POT_MW,
      OPERACAO |-> reg[ids[k]].OPERACAO,
      geometry |-> reg[ids[k]].geometry]]

\* pd.concat(gdfs, ignore_index=True) (main.py:77): the rows of the batches
\* in batch order under a fresh 0-based index.
Concat(tables) ==
  LET rows == Flatten(tables)
  IN [k \in 1..Len(rows) |->
        [index |-> k - 1,
         OBJECTID |-> rows[k].OBJECTID,
         NOME_EOL |-> rows[k].NOME_EOL,
         DEN_AEG |-> rows[k].DEN_AEG,
         UF |-> rows[k].UF,
         POT_MW |-> rows[k].POT_MW,
         OPERACAO |-> rows[k].OPERACAO,
         geometry |-> rows[k].geometry]]

\* longitude = geometry.x, latitude = geometry.y (main.py:81-82).  The
\* formatted timestamp column (main.py:85-87) is read by no correction rule
\* and is left out of the rows.
WithCoordinates(t) ==
  [k \in 1..Len(t) |->
     [index |-> t[k].index,
      OBJECTID |-> t[k].OBJECTID,
      NOME_EOL |-> t[k].NOME_EOL,
      DEN_AEG |-> t[k].DEN_AEG,
      UF |-> t[k].UF,
      POT_MW |-> t[k].POT_MW,
      OPERACAO |-> t[k].OPERACAO,
      longitude |-> t[k].geometry.x,
      latitude |-> t[k].geometry.y]]

(***************************************************************************)
(* The correction rules (main.py:127-136), each a function of the table.   *)
(***************************************************************************)
\* Variant: both spellings of the name are excluded.
RowExclusion_BothSpellings(t) ==
  SelectSeq(t, LAMBDA r : r.NOME_EOL \notin {SerraDeGentio, SerraDoGentio})

\* gdf_total[gdf_total["NOME_EOL"] != "Serra de Gentio do Ouro XXIII"]
RowExclusion(t) == SelectSeq(t, LAMBDA r : r.NOME_EOL # SerraDeGentio)

\* gdf_total.loc[gdf_total["NOME_EOL"] == "Asa Branca III", "UF"] = "RN"
OverrideAsaBranca(t) ==
  [k \in 1..Len(t) |->
     IF t[k].NOME_EOL = AsaBrancaIII THEN [t[k] EXCEPT !.UF = "RN"] ELSE t[k]]

\* Variant: the second override writes the literal of the first.
OverrideBarra_WritesRN(t) ==
  [k \in 1..Len(t) |->
     IF t[k].NOME_EOL = BarraXI THEN [t[k] EXCEPT !.UF = "RN"] ELSE t[k]]

\* Variant: the second override matches the name of the first.
OverrideBarra_MatchesAsaBranca(t) ==
  [k \in 1..Len(t) |->
     IF t[k].NOME_EOL = AsaBrancaIII THEN [t[k] EXCEPT !.UF = "MG"] ELSE t[k]]

\* gdf_total.loc[gdf_total["NOME_EOL"] == "Barra XI", "UF"] = "MG"
OverrideBarra(t) ==
  [k \in 1..Len(t) |->
     IF t[k].NOME_EOL = BarraXI THEN [t[k] EXCEPT !.UF = "MG"] ELSE t[k]]

\* gdf_total["POT_MW"].apply(CorrectNominalPower)
PowerCorrection(t) ==
  [k \in 1..Len(t) |-> [t[k] EXCEPT !.POT_MW = CorrectNominalPower(t[k].POT_MW)]]

\* Variant: the null branch is missing.
NormalizeOperacao_NoNullBranch(x) ==
  IF Str(x) = "1" THEN Sim ELSE x

\* lambda x: "Sem informação" if pd.isna(x) else "Sim" if str(x) == "1" else x
NormalizeOperacao(x) ==
  IF IsNa(x) THEN SemInformacao
  ELSE IF Str(x) = "1" THEN Sim
  ELSE x

\* gdf_total["OPERACAO"].apply(lambda ...)
OperacaoNormalization(t) ==
  [k \in 1..Len(t) |-> [t[k] EXCEPT !.OPERACAO = NormalizeOperacao(t[k].OPERACAO)]]

\* subset=["NOME_EOL", "DEN_AEG", "latitude", "longitude"]
DedupKey(r) == <<r.NOME_EOL, r.DEN_AEG, r.latitude, r.longitude>>

\* drop_duplicates keeps the first row of every key (keep="first")
RECURSIVE KeepFirst(_, _)
KeepFirst(t, seen) ==
  IF t = <<>> THEN <<>>
  ELSE IF DedupKey(Head(t)) \in seen THEN KeepFirst(Tail(t), seen)
  ELSE <<Head(t)>> \o KeepFirst(Tail(t), seen \cup {DedupKey(Head(t))})

Reverse(t) == [k \in 1..Len(t) |-> t[Len(t) + 1 - k]]

\* Variant: the last row of every key is kept (keep="last").
DropDuplicates_KeepLast(t) == Reverse(KeepFirst(Reverse(t), {}))

\* gdf_total.drop_duplicates(subset=[...])
DropDuplicates(t) == KeepFirst(t, {})

RuleOrder ==
  <<"RowExclusion", "OverrideAsaBranca", "OverrideBarra", "PowerCorrection",
    "OperacaoNormalization", "DropDuplicates">>

RuleNames == {RuleOrder[k] : k \in 1..Len(RuleOrder)}

ApplyRule(rule, t) ==
  CASE rule = "RowExclusion" -> RowExclusion(t)
    [] rule = "OverrideAsaBranca" -> OverrideAsaBranca(t)
    [] rule = "OverrideBarra" -> OverrideBarra(t)
    [] rule = "PowerCorrection" -> PowerCorrection(t)
    [] rule = "OperacaoNormalization" -> OperacaoNormalization(t)
    [] rule = "DropDuplicates" -> DropDuplicates(t)

\* The rules of main.py:127-136 applied in the order of the source.
RECURSIVE ApplyInOrder(_, _)
ApplyInOrder(rules, t) ==
  IF rules = <<>> THEN t ELSE ApplyInOrder(Tail(rules), ApplyRule(Head(rules), t))

Corrector(t) == ApplyInOrder(RuleOrder, t)

(***************************************************************************)
(* HTTP exchanges.                                                         *)
(***************************************************************************)
NoResponse == [transport |-> "none", status |-> 0, body |-> "none"]
TransportError == [transport |-> "error", status |-> 0, body |-> "none"]
NoFile == <<>>

StatusCodes == {200, 404, 500}

\* Responses to the id-list query: any status with a body that is no JSON,
\* JSON without the objectIds key, or JSON with it.
IdResponses ==
  {TransportError} \cup
  {[transport |-> "ok", status |-> s, body |-> b] :
     s \in StatusCodes, b \in {"not json", "json without objectIds", "objectIds"}}

\* Responses to a batch query.
BatchResponses ==
  {TransportError} \cup
  {[transport |-> "ok", status |-> s, body |-> b] :
     s \in StatusCodes, b \in {"not geojson", "geojson"}}

\* Variant: the status of the response is never checked.
RaisesForStatus_Never(resp) == FALSE

\* result.raise_for_status() raises (main.py:44)
RaisesForStatus(resp) == resp.status >= 400

\* FetchAllIds raises: requests.get fails, .json() fails or the key is
\* missing (main.py:28-29).  The status code is not looked at.
FetchAllIdsRaises(resp) ==
  resp.transport = "error" \/ resp.body # "objectIds"

\* FetchObjectsBatch raises: requests.get fails, raise_for_status raises or
\* gpd.read_file cannot parse the body (main.py:43-45).
FetchObjectsBatchRaises(resp) ==
  resp.transport = "error" \/ RaisesForStatus(resp) \/ resp.body # "geojson"

ServerIds(reg) == [k \in 1..Len(reg) |-> k]

(***************************************************************************)
(* The script (main.py:59-138).                                            *)
(***************************************************************************)
InitWith(Features, Counts, Sizes) ==
  /\ registry \in UNION {[1..n -> Features] : n \in Counts}
  /\ batch_size \in Sizes
  /\ pc = "ids"
  /\ id_response = NoResponse
  /\ object_ids = <<>>
  /\ i = 0
  /\ requests = <<>>
  /\ gdfs = <<>>
  /\ gdf_total = <<>>
  /\ applied = {}
  /\ in_order = TRUE
  /\ csv = NoFile

\* object_ids = FetchAllIds(url) (main.py:64)
FetchAllIds ==
  /\ pc = "ids"
  /\ \E resp \in IdResponses :
       /\ id_response' = resp
       /\ IF FetchAllIdsRaises(resp)
          THEN /\ pc' = "aborted"
               /\ UNCHANGED object_ids
          ELSE /\ pc' = "loop"
               /\ object_ids' = ServerIds(registry)
  /\ UNCHANGED <<registry, batch_size, i, requests, gdfs, gdf_total, applied, in_order, csv>>

\* One iteration of the batch loop (main.py:70-74)
FetchBatch ==
  /\ pc = "loop"
  /\ i < Len(object_ids)
  /\ LET batch_ids == BatchSlice(object_ids, i, batch_size)
     IN \E resp \in BatchResponses :
          /\ requests' = Append(requests, [ids |-> batch_ids, response |-> resp])
          /\ IF FetchObjectsBatchRaises(resp)
             THEN /\ pc' = "aborted"
                  /\ UNCHANGED <<gdfs, i>>
             ELSE /\ gdfs' = Append(gdfs, FeaturesOf(registry, batch_ids))
                  /\ i' = i + batch_size
                  /\ pc' = "loop"
  /\ UNCHANGED <<registry, batch_size, id_response, object_ids, gdf_total, applied,
                 in_order, csv>>

\* range(0, len(object_ids), batch_size) is exhausted (main.py:70)
LoopExit ==
  /\ pc = "loop"
  /\ i >= Len(object_ids)
  /\ pc' = "concat"
  /\ UNCHANGED <<registry, batch_size, id_response, object_ids, i, requests,
                 gdfs, gdf_total, applied, in_order, csv>>

\* gdf_total = pd.concat(gdfs, ignore_index=True) (main.py:77); pd.concat
\* raises on an empty list.
ConcatBatches ==
  /\ pc = "concat"
  /\ IF gdfs = <<>>
     THEN /\ pc' = "aborted"
          /\ UNCHANGED gdf_total
     ELSE /\ gdf_total' = Concat(gdfs)
          /\ pc' = "derive"
  /\ UNCHANGED <<registry, batch_size, id_response, object_ids, i, requests,
                 gdfs, applied, in_order, csv>>

\* main.py:81-87
DeriveColumns ==
  /\ pc = "derive"
  /\ gdf_total' = WithCoordinates(gdf_total)
  /\ pc' = "correct"
  /\ UNCHANGED <<registry, batch_size, id_response, object_ids, i, requests,
                 gdfs, applied, in_order, csv>>

\* The k-th statement of main.py:127-136
RuleStep(k) ==
  /\ pc = "correct"
  /\ applied = {RuleOrder[j] : j \in 1..(k - 1)}
  /\ gdf_total' = ApplyRule(RuleOrder[k], gdf_total)
  /\ applied' = applied \cup {RuleOrder[k]}
  /\ UNCHANGED <<registry, batch_size, pc, id_response, object_ids, i, requests,
                 gdfs, in_order, csv>>

ExcludeRows == RuleStep(1)
SetUfAsaBranca == RuleStep(2)
SetUfBarra == RuleStep(3)
CorrectPower == RuleStep(4)
NormalizeOperacaoColumn == RuleStep(5)
Deduplicate == RuleStep(6)

\* gdf_total.to_csv("data.csv") (main.py:138)
WriteCsv ==
  /\ pc = "correct"
  /\ applied = RuleNames
  /\ csv' = <<gdf_total>>
  /\ pc' = "done"
  /\ UNCHANGED <<registry, batch_size, id_response, object_ids, i, requests,
                 gdfs, gdf_total, applied, in_order>>

Next ==
  \/ FetchAllIds
  \/ FetchBatch
  \/ LoopExit
  \/ ConcatBatches
  \/ DeriveColumns
  \/ ExcludeRows
  \/ SetUfAsaBranca
  \/ SetUfBarra
  \/ CorrectPower
  \/ NormalizeOperacaoColumn
  \/ Deduplicate
  \/ WriteCsv

\* The rules of main.py:127-136 taken in any order: the next rule is any one
\* not applied yet.
ApplyRuleAnyOrder ==
  /\ pc = "correct"
  /\ \E rule \in RuleNames \ applied :
       /\ gdf_total' = ApplyRule(rule, gdf_total)
       /\ applied' = applied \cup {rule}
       /\ in_order' = (in_order /\ \E k \in 1..Len(RuleOrder) :
                         /\ rule = RuleOrder[k]
                         /\ applied = {RuleOrder[j] : j \in 1..(k - 1)})
  /\ UNCHANGED <<registry, batch_size, pc, id_response, object_ids, i, requests,
                 gdfs, csv>>

NextAnyOrder ==
  \/ FetchAllIds
  \/ FetchBatch
  \/ LoopExit
  \/ ConcatBatches
  \/ DeriveColumns
  \/ ApplyRuleAnyOrder
  \/ WriteCsv

(***************************************************************************)
(* Inputs.                                                                 *)
(***************************************************************************)
ApiBatchSize == 1000

GeometryAt(x, y) == [x |-> x, y |-> y]

Feature(name, den, uf, pot, oper, geom) ==
  [NOME_EOL |-> name, DEN_AEG |-> den, UF |-> uf, POT_MW |-> pot,
   OPERACAO |-> oper, geometry |-> geom]

\* Acquisition: identifier lists of every length up to MaxIds, every batch
\* size up to MaxBatch.
BatchFeatures ==
  {Feature("Juramento", den, "MG", Float(6, 0), PyStr("1"), GeometryAt(-43, -16)) :
     den \in {"AEG-01", "AEG-02"}}

Init == InitWith(BatchFeatures, 0..MaxIds, 1..MaxBatch)

Spec == Init /\ [][Next]_vars

\* Power correction: 0, negative powers, powers beyond one factor of 1000
\* from the plausible range, the bounds of the range, powers inside, nan.
PowerValues ==
  {Float(0, 0), Float(-3, 0), Float(-42, 2),
   Float(1, -5), Float(5, -5), Float(42, -4), Float(6, -3), Float(49, -3),
   Float(5, -2), Float(42, -1), Float(1, 2),
   Float(101, 0), Float(42, 2), Float(675, 1), Float(1, 5), Float(2, 5),
   NaNFloat}

PowerFeatures ==
  {Feature("Juramento", "AEG-01", "MG", p, PyStr("1"), GeometryAt(-43, -16)) :
     p \in PowerValues}

InitPower == InitWith(PowerFeatures, 1..MaxRows, {ApiBatchSize})

SpecPower == InitPower /\ [][Next]_vars

\* Names and state codes.
NameValues == {SerraDeGentio, SerraDoGentio, AsaBrancaIII, BarraXI, "Juramento", NaN}

NameFeatures ==
  {Feature(name, "AEG-01", uf, Float(42, -1), PyStr("1"), GeometryAt(x, -11)) :
     name \in NameValues, uf \in {NaN, "RN", "BA"}, x \in {-42, -41}}

InitNames == InitWith(NameFeatures, 1..MaxRows, {ApiBatchSize})

SpecNames == InitNames /\ [][Next]_vars

\* Deduplication: rows that agree or differ in each field of the key, and
\* in a field outside it.
DedupFeatures ==
  {Feature(name, den, uf, Float(42, -1), PyStr("1"), GeometryAt(x, y)) :
     name \in {SerraDeGentio, "Juramento"}, den \in {"AEG-01", "AEG-02"},
     uf \in {"MG", "BA"}, x \in {-43, -42}, y \in {-16, -15}}

InitDedup == InitWith(DedupFeatures, 1..MaxRows, {ApiBatchSize})

SpecDedup == InitDedup /\ [][Next]_vars

\* Operation status: null, strings, and numbers as a numeric column holds.
OperacaoValues ==
  {PyNaN, PyStr("1"), PyStr("0"), PyStr("Sim"), PyStr("11"),
   PyInt("1"), PyInt("0"), PyFloat("1.0")}

OperacaoFeatures ==
  {Feature("Juramento", "AEG-01", "MG", Float(42, -1), oper, GeometryAt(x, -16)) :
     oper \in OperacaoValues, x \in {-43, -42}}

InitOperacao == InitWith(OperacaoFeatures, 1..MaxRows, {ApiBatchSize})

SpecOperacao == InitOperacao /\ [][Next]_vars

\* Rule order: rows every rule acts on or leaves alone.
AnyOrderFeatures ==
  {Feature(name, "AEG-01", NaN, pot, oper, GeometryAt(-43, -16)) :
     name \in {SerraDeGentio, AsaBrancaIII, BarraXI},
     pot \in {Float(42, 2), Float(42, -1)},
     oper \in {PyNaN, PyStr("0")}}

InitAnyOrder == InitWith(AnyOrderFeatures, 1..MaxRows, {ApiBatchSize})

SpecAnyOrder == InitAnyOrder /\ [][NextAnyOrder]_vars

(***************************************************************************)
(* Properties.  A row of the table is traced back to the feature the       *)
(* service returned for it by its index: row index k - 1 is Fetched[k].    *)
(***************************************************************************)
Fetched == Flatten(gdfs)

\* The table written to data.csv
Output == csv[1]

FetchedKey(f) == <<f.NOME_EOL, f.DEN_AEG, f.geometry.y, f.geometry.x>>

Indexes(t) == {t[k].index : k \in 1..Len(t)}

CeilDiv(n, b) == (n + b - 1) \div b

RequestedIds == Flatten([k \in 1..Len(requests) |-> requests[k].ids])

\* A request that failed in transport or was answered with another status
\* than 200.
NonSuccess(resp) ==
  \/ resp.transport = "error"
  \/ resp.transport = "ok" /\ resp.status # 200

AtLeast(p, low) == ~p.nan /\ ~FloatLt(p, low)

AtMost(p, high) == ~p.nan /\ ~FloatLt(high, p)

\* 0.05 <= p <= 100
Plausible(p) == AtLeast(p, Float(5, -2)) /\ AtMost(p, Float(1, 2))

\* 0.00005 <= p <= 100000
WithinOneFactor(p) == AtLeast(p, Float(5, -5)) /\ AtMost(p, Float(1, 5))

\* C1: the batch loop sends ceil(N/B) requests; the k-th carries the
\* contiguous slice of object_ids that starts at (k-1)*B and has B ids (the
\* last one the remaining ids), so the requests concatenated in order are
\* object_ids: every id is requested once, in the original order.
C1_BatchPartition ==
  LET N == Len(object_ids)
      B == batch_size
  IN /\ Len(requests) <= CeilDiv(N, B)
     /\ \A k \in 1..Len(requests) :
          /\ Len(requests[k].ids) = Min(B, N - (k - 1) * B)
          /\ Len(requests[k].ids) >= 1
          /\ \A j \in 1..Len(requests[k].ids) :
               requests[k].ids[j] = object_ids[(k - 1) * B + j]
     /\ pc \in {"concat", "derive", "correct", "done"} =>
          /\ Len(requests) = CeilDiv(N, B)
          /\ RequestedIds = object_ids

\* Four ids in batches of three: two requests, of three ids and of one.
C1_Witness ==
  /\ pc = "concat"
  /\ Len(object_ids) = 4
  /\ batch_size = 3
  /\ Len(requests) = 2
  /\ Len(requests[2].ids) = 1

\* C2: a batch request that gets a non-success response is the last request
\* of the run: the run stops there without advancing past the batch, and
\* data.csv is never written; data.csv is written only after every batch
\* request succeeded.
C2_BatchFailureAborts ==
  /\ \A k \in 1..Len(requests) :
       NonSuccess(requests[k].response) =>
         /\ k = Len(requests)
         /\ pc = "aborted"
         /\ csv = NoFile
         /\ i = (k - 1) * batch_size
         /\ Len(gdfs) = k - 1
  /\ csv # NoFile => \A k \in 1..Len(requests) : ~NonSuccess(requests[k].response)

\* The second of at least three batches answers 500 with a GeoJSON body.
C2_Witness ==
  /\ pc = "aborted"
  /\ Len(requests) = 2
  /\ requests[2].response.status = 500
  /\ requests[2].response.body = "geojson"
  /\ Len(object_ids) > 2 * batch_size
  /\ csv = NoFile

\* C3: a transport failure or a non-success response to the id-list query
\* aborts the run before any batch request, whatever the body is.
C3_IdFailureAborts ==
  NonSuccess(id_response) =>
    /\ pc = "aborted"
    /\ requests = <<>>
    /\ csv = NoFile

\* C4: the power correction leaves a power of [0.05, 100] unchanged, and a
\* corrected power that lies in [0.05, 100] is unchanged by a second
\* application of CorrectNominalPower.
C4_PowerFixedPoint ==
  "PowerCorrection" \in applied =>
    \A k \in 1..Len(gdf_total) :
      LET p == Fetched[gdf_total[k].index + 1].POT_MW
          q == gdf_total[k].POT_MW
      IN /\ Plausible(p) => q = p
         /\ Plausible(q) => CorrectNominalPower(q) = q

\* 4200 became 4.2 and 100 stayed 100.
C4_Witness ==
  /\ "PowerCorrection" \in applied
  /\ \E k \in 1..Len(gdf_total) :
       /\ Fetched[gdf_total[k].index + 1].POT_MW = Float(42, 2)
       /\ gdf_total[k].POT_MW = Float(42, -1)
  /\ \E k \in 1..Len(gdf_total) :
       /\ Fetched[gdf_total[k].index + 1].POT_MW = Float(1, 2)
       /\ gdf_total[k].POT_MW = Float(1, 2)

\* C5 as stated: after the power correction every POT_MW lies in [0.05, 100].
C5_AllPowersPlausible ==
  "PowerCorrection" \in applied =>
    \A k \in 1..Len(gdf_total) : Plausible(gdf_total[k].POT_MW)

\* C5 amended: after the power correction a record's POT_MW lies in
\* [0.05, 100] exactly when its fetched power lies in [0.00005, 100000].
C5_PlausibleWithinOneFactor ==
  "PowerCorrection" \in applied =>
    \A k \in 1..Len(gdf_total) :
      Plausible(gdf_total[k].POT_MW)
        <=> WithinOneFactor(Fetched[gdf_total[k].index + 1].POT_MW)

\* 0.0042 became 4.2 and 100000 became 100.
C5_Witness ==
  /\ "PowerCorrection" \in applied
  /\ \E k \in 1..Len(gdf_total) :
       /\ Fetched[gdf_total[k].index + 1].POT_MW = Float(42, -4)
       /\ gdf_total[k].POT_MW = Float(42, -1)
  /\ \E k \in 1..Len(gdf_total) :
       /\ Fetched[gdf_total[k].index + 1].POT_MW = Float(1, 5)
       /\ gdf_total[k].POT_MW = Float(1, 2)

\* C6: no two rows of data.csv share (NOME_EOL, DEN_AEG, latitude,
\* longitude); of the fetched rows that are not excluded by name, a row is
\* in data.csv exactly when no earlier fetched row has its tuple (the first
\* row of every group survives, whatever the other fields are, and a row
\* with a unique tuple is never removed); the rows keep their order.
C6_KeepsFirstOfEachKey ==
  csv # NoFile =>
    /\ \A a, b \in 1..Len(Output) : a # b => DedupKey(Output[a]) # DedupKey(Output[b])
    /\ \A a, b \in 1..Len(Output) : a < b => Output[a].index < Output[b].index
    /\ \A k \in 1..Len(Fetched) :
         Fetched[k].NOME_EOL # "Serra de Gentio do Ouro XXIII" =>
           ((\E a \in 1..Len(Output) :
               /\ Output[a].index = k - 1
               /\ Output[a].OBJECTID = Fetched[k].OBJECTID
               /\ Output[a].UF = Fetched[k].UF)
            <=> \A j \in 1..(k - 1) : FetchedKey(Fetched[j]) # FetchedKey(Fetched[k]))

\* Two fetched rows with one tuple and different UF: the first is written.
C6_Witness ==
  /\ csv # NoFile
  /\ Len(Fetched) >= 2
  /\ FetchedKey(Fetched[1]) = FetchedKey(Fetched[2])
  /\ Fetched[1].UF # Fetched[2].UF
  /\ 0 \in Indexes(Output)
  /\ 1 \notin Indexes(Output)

\* C7 as stated: no row of data.csv is named "Serra de Gentio do Ouro XXIII"
\* and every fetched row named "Serra do Gentio do Ouro XXIII" is in data.csv.
C7_SerraDoAlwaysPresent ==
  csv # NoFile =>
    /\ \A a \in 1..Len(Output) : Output[a].NOME_EOL # "Serra de Gentio do Ouro XXIII"
    /\ \A k \in 1..Len(Fetched) :
         Fetched[k].NOME_EOL = "Serra do Gentio do Ouro XXIII" =>
           \E a \in 1..Len(Output) :
             Output[a].index = k - 1 /\ Output[a].NOME_EOL = "Serra do Gentio do Ouro XXIII"

\* C7 amended: the exclusion rule removes a row exactly when its name is
\* "Serra de Gentio do Ouro XXIII"; no row of data.csv has that name, and a
\* fetched row named "Serra do Gentio do Ouro XXIII" is in data.csv exactly
\* when no earlier fetched row has its (NOME_EOL, DEN_AEG, latitude,
\* longitude).
C7_ExclusionByExactName ==
  /\ ("RowExclusion" \in applied /\ "DropDuplicates" \notin applied) =>
       Indexes(gdf_total) =
         {k - 1 : k \in {j \in 1..Len(Fetched) :
                           Fetched[j].NOME_EOL # "Serra de Gentio do Ouro XXIII"}}
  /\ csv # NoFile =>
       /\ \A a \in 1..Len(Output) : Output[a].NOME_EOL # "Serra de Gentio do Ouro XXIII"
       /\ \A k \in 1..Len(Fetched) :
            Fetched[k].NOME_EOL = "Serra do Gentio do Ouro XXIII" =>
              ((\E a \in 1..Len(Output) :
                  /\ Output[a].index = k - 1
                  /\ Output[a].NOME_EOL = "Serra do Gentio do Ouro XXIII")
               <=> \A j \in 1..(k - 1) : FetchedKey(Fetched[j]) # FetchedKey(Fetched[k]))

\* One row of each spelling was fetched: only the "Serra do" row is written.
C7_Witness ==
  /\ csv # NoFile
  /\ \E k \in 1..Len(Fetched) : Fetched[k].NOME_EOL = "Serra de Gentio do Ouro XXIII"
  /\ \E k \in 1..Len(Fetched) : Fetched[k].NOME_EOL = "Serra do Gentio do Ouro XXIII"
  /\ Len(Output) = 1
  /\ Output[1].NOME_EOL = "Serra do Gentio do Ouro XXIII"

\* C8 as stated: the string "1" becomes "Sim", a null becomes "Sem
\* informação", every other value is unchanged.
C8_OnlyStringOneBecomesSim ==
  "OperacaoNormalization" \in applied =>
    \A k \in 1..Len(gdf_total) :
      LET x == Fetched[gdf_total[k].index + 1].OPERACAO
          y == gdf_total[k].OPERACAO
      IN /\ x = PyStr("1") => y = PyStr("Sim")
         /\ x = PyNaN => y = PyStr("Sem informacao")
         /\ x \notin {PyStr("1"), PyNaN} => y = x

\* C8 amended: a value whose text is "1" (the string "1" or the integer 1)
\* becomes "Sim", a null becomes "Sem informação", every other value is
\* unchanged.
C8_TextOneBecomesSim ==
  "OperacaoNormalization" \in applied =>
    \A k \in 1..Len(gdf_total) :
      LET x == Fetched[gdf_total[k].index + 1].OPERACAO
          y == gdf_total[k].OPERACAO
      IN /\ x \in {PyStr("1"), PyInt("1")} => y = PyStr("Sim")
         /\ x = PyNaN => y = PyStr("Sem informacao")
         /\ x \notin {PyStr("1"), PyInt("1"), PyNaN} => y = x

\* A string "1" and a null were normalized.
C8_Witness ==
  /\ "OperacaoNormalization" \in applied
  /\ \E k \in 1..Len(gdf_total) :
       /\ Fetched[gdf_total[k].index + 1].OPERACAO = PyStr("1")
       /\ gdf_total[k].OPERACAO = PyStr("Sim")
  /\ \E k \in 1..Len(gdf_total) :
       /\ Fetched[gdf_total[k].index + 1].OPERACAO = PyNaN
       /\ gdf_total[k].OPERACAO = PyStr("Sem informacao")

\* C9: in data.csv every row named "Asa Branca III" has UF "RN", every row
\* named "Barra XI" has UF "MG", and every other row has the UF it was
\* fetched with.
C9_UfOverrides ==
  csv # NoFile =>
    \A a \in 1..Len(Output) :
      LET f == Fetched[Output[a].index + 1]
      IN /\ Output[a].NOME_EOL = f.NOME_EOL
         /\ Output[a].NOME_EOL = "Asa Branca III" => Output[a].UF = "RN"
         /\ Output[a].NOME_EOL = "Barra XI" => Output[a].UF = "MG"
         /\ Output[a].NOME_EOL \notin {"Asa Branca III", "Barra XI"} => Output[a].UF = f.UF

\* An "Asa Branca III" row fetched without UF and a "Barra XI" row fetched
\* with UF "RN" are written.
C9_Witness ==
  /\ csv # NoFile
  /\ \E a \in 1..Len(Output) :
       /\ Output[a].NOME_EOL = "Asa Branca III"
       /\ Fetched[Output[a].index + 1].UF = NaN
       /\ Output[a].UF = "RN"
  /\ \E a \in 1..Len(Output) :
       /\ Output[a].NOME_EOL = "Barra XI"
       /\ Fetched[Output[a].index + 1].UF = "RN"
       /\ Output[a].UF = "MG"

\* C10: the six rules applied in any order give the table that the order
\* of the source gives: the same rows, in the same order, with the same
\* values.
C10_RulesCommute ==
  applied = RuleNames => gdf_total = Corrector(WithCoordinates(Concat(gdfs)))

\* The six rules were applied in another order than the source's, and they
\* removed rows.
C10_Witness ==
  /\ applied = RuleNames
  /\ ~in_order
  /\ gdf_total # <<>>
  /\ Len(gdf_total) < Len(Fetched)

====
